---- MODULE Spec2Model ----
(***************************************************************************)
(* The megaverse provisioning programs phase_one.py (the X shape of        *)
(* Polyanets) and phase_two.py (the goal map of Polyanets, Soloons and     *)
(* Comeths): the retrying transport _make_request, the API operations on   *)
(* top of it, the position generator, the goal-map parser and the two      *)
(* provisioning loops.                                                     *)
(*                                                                         *)
(* Time is counted in milliseconds: time.sleep(0.5) is a sleep of 500.     *)
(* Strings the programs look into (the goal-map tokens) are sequences of   *)
(* one-character strings; strings they only pass on (paths, methods, the   *)
(* candidate id) are TLA+ strings.  Python's 0-based indices are kept:     *)
(* the cell goal_map[r][c] is goal_map[r + 1][c + 1] here and its Position *)
(* is (r, c).                                                              *)
(***************************************************************************)
EXTENDS Integers, Sequences, FiniteSets, TLC

----------------------------------------------------------------------------
(* Bounds of the model *)

\* _make_request is called directly with max_retries in 0..MaxRetriesBound
MaxRetriesBound == 4
\* MegaverseCreator is constructed with grid_size in 0..MaxGridSize
MaxGridSize == 12
\* goal maps have at most MaxCells cells (rows * columns)
MaxCells == 4

(* Constants of the programs *)

\* max_retries: int = 3
DefaultMaxRetries == 3
\* retry_delay: float = 1.0 (seconds)
DefaultRetryDelay == 1000
\* time.sleep(0.5) between two items of a run
PacingDelay == 500
\* range(2, 9) of _generate_x_shape_positions
XRangeStart == 2
XRangeStop == 9

\* self.candidate_id, set by the constructor from CANDIDATE_ID
candidate_id == "candidate-1"

----------------------------------------------------------------------------
(* Python values *)

Min(S) == CHOOSE x \in S : \A y \in S : x <= y

\* d[k] = v on a dict
DictSet(d, k, v) ==
    [x \in (DOMAIN d) \cup {k} |-> IF x = k THEN v ELSE d[x]]

\* Position(row, column)
Position(row, column) == [row |-> row, column |-> column]

\* Position.to_dict
to_dict(position) == [row |-> position.row, column |-> position.column]

\* Polyanet(position), Soloon(position, color), Cometh(position, direction)
Polyanet(position) == [kind |-> "Polyanet", position |-> position]
Soloon(position, color) ==
    [kind |-> "Soloon", position |-> position, color |-> color]
Cometh(position, direction) ==
    [kind |-> "Cometh", position |-> position, direction |-> direction]

\* AstralObject.to_api_params and its overrides in Soloon and Cometh
to_api_params(obj) ==
    IF obj.kind = "Soloon"
    THEN DictSet(to_dict(obj.position), "color", obj.color)
    ELSE IF obj.kind = "Cometh"
    THEN DictSet(to_dict(obj.position), "direction", obj.direction)
    ELSE to_dict(obj.position)

\* endpoint_map[obj.__class__.__name__] of create_object
endpoint_map(kind) ==
    CASE kind = "Polyanet" -> "/polyanets"
      [] kind = "Soloon" -> "/soloons"
      [] kind = "Cometh" -> "/comeths"

----------------------------------------------------------------------------
(* str methods used by parse_goal_map *)

UpperLetters ==
    <<"A","B","C","D","E","F","G","H","I","J","K","L","M",
      "N","O","P","Q","R","S","T","U","V","W","X","Y","Z">>
LowerLetters ==
    <<"a","b","c","d","e","f","g","h","i","j","k","l","m",
      "n","o","p","q","r","s","t","u","v","w","x","y","z">>

\* str.lower on one character
LowerChar(ch) ==
    IF \E i \in 1..26 : UpperLetters[i] = ch
    THEN LowerLetters[CHOOSE i \in 1..26 : UpperLetters[i] = ch]
    ELSE ch

\* str.lower
lower(s) == [i \in 1..Len(s) |-> LowerChar(s[i])]

\* str.endswith
endswith(s, suffix) ==
    /\ Len(s) >= Len(suffix)
    /\ SubSeq(s, Len(s) - Len(suffix) + 1, Len(s)) = suffix

\* s.split(sep)[0]: the part of s before the first sep, s when it has none
split_first(s, sep) ==
    LET hits == {i \in 1..Len(s) : s[i] = sep}
    IN IF hits = {} THEN s ELSE SubSeq(s, 1, Min(hits) - 1)

\* the string literals of parse_goal_map
POLYANET == <<"P","O","L","Y","A","N","E","T">>
SOLOON == <<"S","O","L","O","O","N">>
COMETH == <<"C","O","M","E","T","H">>
Underscore == "_"

\* goal-map tokens: the four kinds of the example row of the goal map
RED_SOLOON == <<"R","E","D","_","S","O","L","O","O","N">>
UP_COMETH == <<"U","P","_","C","O","M","E","T","H">>
SPACE == <<"S","P","A","C","E">>
\* further tokens of the enumerated colors and directions
WHITE_SOLOON == <<"W","H","I","T","E","_","S","O","L","O","O","N">>
LEFT_COMETH == <<"L","E","F","T","_","C","O","M","E","T","H">>
\* tokens outside the grammar of the goal map
GREEN_SOLOON == <<"G","R","E","E","N","_","S","O","L","O","O","N">>
DIAGONAL_COMETH ==
    <<"D","I","A","G","O","N","A","L","_","C","O","M","E","T","H">>
BARE_SOLOON == SOLOON
LOWER_POLYANET == <<"p","o","l","y","a","n","e","t">>

\* the tokens of the goal maps that runs are given
RunTokens == {POLYANET, RED_SOLOON, UP_COMETH, SPACE}
\* the tokens of the goal maps that parse_goal_map is given on its own
ParseTokens ==
    RunTokens \cup {WHITE_SOLOON, LEFT_COMETH, GREEN_SOLOON, DIAGONAL_COMETH,
                    BARE_SOLOON, LOWER_POLYANET}

\* the goal maps over a set of tokens: [] and the rectangular maps of at
\* most MaxCells cells (a map of rows without columns included)
GoalMapsOver(tokens) ==
    {<<>>} \cup
    UNION {[1..r -> [1..c -> tokens]] :
             <<r, c>> \in {rc \in (1..MaxCells) \X (0..MaxCells) :
                             rc[1] * rc[2] <= MaxCells}}

----------------------------------------------------------------------------
(* phase_two.py: MegaverseCreator.parse_goal_map *)

\* a bug: .lower() is lost, the color and the direction stay in upper case
parse_cell_no_lower(cell, position) ==
    IF cell = POLYANET
    THEN <<Polyanet(position)>>
    ELSE IF endswith(cell, SOLOON)
    THEN <<Soloon(position, split_first(cell, Underscore))>>
    ELSE IF endswith(cell, COMETH)
    THEN <<Cometh(position, split_first(cell, Underscore))>>
    ELSE <<>>

\* the body of the inner loop: the objects one cell appends
parse_cell(cell, position) ==
    IF cell = POLYANET
    THEN <<Polyanet(position)>>
    ELSE IF endswith(cell, SOLOON)
    THEN <<Soloon(position, lower(split_first(cell, Underscore)))>>
    ELSE IF endswith(cell, COMETH)
    THEN <<Cometh(position, lower(split_first(cell, Underscore)))>>
    ELSE <<>>

RECURSIVE parse_row(_, _, _)
\* for col_index, cell in enumerate(row), from col_index on
parse_row(row, row_index, col_index) ==
    IF col_index >= Len(row)
    THEN <<>>
    ELSE parse_cell(row[col_index + 1], Position(row_index, col_index))
         \o parse_row(row, row_index, col_index + 1)

RECURSIVE parse_rows(_, _)
\* for row_index, row in enumerate(goal_map), from row_index on
parse_rows(goal_map, row_index) ==
    IF row_index >= Len(goal_map)
    THEN <<>>
    ELSE parse_row(goal_map[row_index + 1], row_index, 0)
         \o parse_rows(goal_map, row_index + 1)

parse_goal_map(goal_map) == parse_rows(goal_map, 0)

----------------------------------------------------------------------------
(* phase_one.py: the position generator and the validity check *)

\* a bug: no lower bound, a negative coordinate passes
is_valid_position_no_lower(position, grid_size) ==
    position.row < grid_size /\ position.column < grid_size

\* a bug: <= for <, a coordinate equal to grid_size passes
is_valid_position_inclusive(position, grid_size) ==
    /\ 0 <= position.row /\ position.row <= grid_size
    /\ 0 <= position.column /\ position.column <= grid_size

\* MegaverseCreator._is_valid_position
is_valid_position(position, grid_size) ==
    /\ 0 <= position.row /\ position.row < grid_size
    /\ 0 <= position.column /\ position.column < grid_size

\* a bug: the counter diagonal is off by one column
x_shape_pair_off_by_one(i, grid_size) ==
    <<Position(i, i), Position(i, grid_size - i)>>

\* the two positions one iteration i of the loop appends
x_shape_pair(i, grid_size) ==
    <<Position(i, i), Position(i, grid_size - 1 - i)>>

RECURSIVE x_shape_from(_, _)
\* for i in range(2, 9), from i on
x_shape_from(i, grid_size) ==
    IF i >= XRangeStop
    THEN <<>>
    ELSE x_shape_pair(i, grid_size) \o x_shape_from(i + 1, grid_size)

\* MegaverseCreator._generate_x_shape_positions
generate_x_shape_positions(grid_size) == x_shape_from(XRangeStart, grid_size)

GridSizes == 0..MaxGridSize

\* the coordinates _is_valid_position is called with on its own: one below
\* the grid to one above the largest
Coordinates == (0 - 1)..MaxGridSize

----------------------------------------------------------------------------
(* The state of a program run *)

VARIABLES
    pc,            \* where the program is: "idle", "request", "backoff",
                   \* "return", "loop", "pacing", "done", "aborted", "raised"
    op,            \* the operation that was called
    goal_map_from, \* which get_goal_map the creator's api has:
                   \* "MegaverseAPI" (the source's) or "replaced"
    served,        \* the goal map held for the run, by the remote or by the
                   \* replaced get_goal_map; <<>> when it is empty or
                   \* cannot be reached
    grid_size,     \* MegaverseCreator.grid_size
    positions,     \* create_x_shape: positions
    goal_map,      \* create_megaverse: goal_map
    objects,       \* create_megaverse: objects
    idx,           \* the item of positions / objects the loop is at (from 1)
    issued,        \* the calls of _make_request a run has made so far
    nFailed,       \* how many of them returned failure
    skipped,       \* create_x_shape: the positions skipped as invalid
    pacings,       \* the pacing sleeps of the run
    req,           \* _make_request: endpoint, method and data
    max_retries,   \* _make_request: max_retries
    retry_delay,   \* _make_request: retry_delay
    attempt,       \* _make_request: the loop variable
    attempts,      \* the HTTP requests the current call has sent
    backoffs,      \* the backoff sleeps of the current call, in order
    slept,         \* the time slept since the last HTTP request
    wire,          \* the last HTTP request sent
    response,      \* what _make_request returns: the status of the
                   \* response, 0 for False / None
    result,        \* what the operation returned: "True", "False", "unset"
    exc,           \* the exception the operation raised, "none" if none
    arg,           \* the position / object an operation called on its own
                   \* was given
    remote,        \* the remote grid: whether it is followed, and what
                   \* the remote holds at which cell
    run_no         \* create_x_shape: 1 in the first run, 2 in the second

vars ==
    <<pc, op, goal_map_from, served,
      grid_size, positions, goal_map, objects, idx,
      issued, nFailed, skipped, pacings, req, max_retries, retry_delay,
      attempt, attempts, backoffs, slept, wire, response, result, exc,
      arg, remote, run_no>>

\* the variables of a run, which a call of _make_request leaves alone
runVars ==
    <<goal_map_from, served,
      grid_size, positions, goal_map, objects, idx, skipped,
      pacings>>
\* the variables of a call of _make_request
callVars == <<req, max_retries, retry_delay, attempt, attempts, backoffs>>

NoRequest == [endpoint |-> "", method |-> "", data |-> <<>>]
NoArg == [kind |-> "none"]

\* the remote grid is the remote's state, which no operation reads back:
\* it is followed where a statement is about it, from the empty grid on
NotFollowed == [followed |-> FALSE, cells |-> {}]
EmptyGrid == [followed |-> TRUE, cells |-> {}]

Init ==
    /\ pc = "idle"
    /\ op = "none"
    /\ goal_map_from = "MegaverseAPI"
    /\ served = <<>>
    /\ grid_size = 0
    /\ positions = <<>>
    /\ goal_map = <<>>
    /\ objects = <<>>
    /\ idx = 1
    /\ issued = <<>>
    /\ nFailed = 0
    /\ skipped = 0
    /\ pacings = 0
    /\ req = NoRequest
    /\ max_retries = DefaultMaxRetries
    /\ retry_delay = DefaultRetryDelay
    /\ attempt = 0
    /\ attempts = 0
    /\ backoffs = <<>>
    /\ slept = 0
    /\ wire = NoRequest
    /\ response = 0
    /\ result = "unset"
    /\ exc = "none"
    /\ arg = NoArg
    /\ remote = NotFollowed
    /\ run_no = 0

----------------------------------------------------------------------------
(* MegaverseAPI._make_request, the same loop in phase_one.py and in        *)
(* phase_two.py (which returns the response / None for True / False)       *)

\* what one HTTP attempt can come to: session.request raises, or returns a
\* response with a status
Outcomes ==
    {[raised |-> e, status |-> 0] : e \in {"ConnectionError", "Timeout"}}
    \cup {[raised |-> "none", status |-> s] : s \in {200, 201, 304, 404, 500}}

\* session.request(...) followed by response.raise_for_status(): a
\* RequestException is raised by the request itself or for a 4xx / 5xx status
raises_request_exception(outcome) ==
    \/ outcome.raised # "none"
    \/ (400 <= outcome.status /\ outcome.status < 600)

\* a bug: range(max_retries + 1), one attempt too many
in_range_one_more(a, mr) == a <= mr

\* for attempt in range(max_retries): whether the loop runs for attempt
in_range(a, mr) == a < mr

\* a bug: a backoff sleep after the last allowed attempt as well
should_backoff_after_last(a, mr) == a < mr

\* if attempt < max_retries - 1
should_backoff(a, mr) == a < mr - 1

\* a bug: * for **, a backoff that grows linearly from 0
sleep_time_linear(rd, a) == rd * (2 * a)

\* sleep_time = retry_delay * (2**attempt)
sleep_time(rd, a) == rd * (2 ^ a)

\* the parameters of _make_request without a default, and the keywords
\* get_goal_map calls it with
RequiredParams == {"endpoint", "method", "data"}
GetGoalMapKeywords == {"endpoint", "method"}
\* the required parameters a call leaves unbound (a TypeError if any)
missing_arguments(keywords) == RequiredParams \ keywords

\* a bug: the caller identifier is not put into the body
make_request_no_candidate(endpoint, method, data, mr, rd) ==
    /\ req' = [endpoint |-> endpoint, method |-> method, data |-> data]
    /\ max_retries' = mr
    /\ retry_delay' = rd
    /\ attempt' = 0
    /\ attempts' = 0
    /\ backoffs' = <<>>
    /\ response' = 0
    /\ pc' = IF mr > 0 THEN "request" ELSE "return"

\* the call of _make_request up to the loop: url and candidateId are set,
\* the loop starts at attempt 0 or, with an empty range, is skipped
make_request(endpoint, method, data, mr, rd) ==
    /\ req' = [endpoint |-> endpoint, method |-> method,
               data |-> DictSet(data, "candidateId", candidate_id)]
    /\ max_retries' = mr
    /\ retry_delay' = rd
    /\ attempt' = 0
    /\ attempts' = 0
    /\ backoffs' = <<>>
    /\ response' = 0
    /\ pc' = IF in_range(0, mr) THEN "request" ELSE "return"

\* the outcomes in which the remote has carried out the request: a 2xx
\* status
Accepted ==
    {o \in Outcomes :
       o.raised = "none" /\ 200 <= o.status /\ o.status < 300}

\* the remote grid once the remote has carried out a request: a create
\* puts its entity at the cell of the body, whatever was there (so it is
\* idempotent per position), a delete takes the entity of its path away
remote_after(grid, request) ==
    LET here(e) ==
          e.row = request.data.row /\ e.column = request.data.column
        cells ==
          IF request.method = "POST"
          THEN {e \in grid.cells : ~here(e)}
               \cup {[row |-> request.data.row,
                       column |-> request.data.column,
                       endpoint |-> request.endpoint]}
          ELSE IF request.method = "DELETE"
          THEN {e \in grid.cells :
                  ~(here(e) /\ e.endpoint = request.endpoint)}
          ELSE grid.cells
    IN IF grid.followed THEN [grid EXCEPT !.cells = cells] ELSE grid

\* an attempt that raises no RequestException, its outcome being one of
\* outcomes: return True / response
request_succeeds(outcomes) ==
    /\ pc = "request"
    /\ \E outcome \in outcomes :
         /\ ~raises_request_exception(outcome)
         /\ response' = outcome.status
         /\ remote' = IF outcome \in Accepted
                      THEN remote_after(remote, req) ELSE remote
    /\ wire' = req
    /\ attempts' = attempts + 1
    /\ slept' = 0
    /\ pc' = "return"
    /\ UNCHANGED <<arg, run_no,
                   op, runVars, issued, nFailed, req, max_retries,
                   retry_delay, attempt, backoffs, result, exc>>

\* an attempt that raises no RequestException
RequestSucceeds == request_succeeds(Outcomes)

\* an attempt that raises a RequestException: the except branch, up to the
\* backoff sleep if there is one, else on to the next iteration
RequestFails ==
    /\ pc = "request"
    /\ \E outcome \in Outcomes : raises_request_exception(outcome)
    /\ wire' = req
    /\ attempts' = attempts + 1
    /\ slept' = 0
    /\ IF should_backoff(attempt, max_retries)
       THEN /\ pc' = "backoff"
            /\ attempt' = attempt
       ELSE /\ attempt' = attempt + 1
            /\ pc' = IF in_range(attempt + 1, max_retries)
                     THEN "request" ELSE "return"
    /\ UNCHANGED <<arg, remote, run_no,
                   op, runVars, issued, nFailed, req, max_retries,
                   retry_delay, backoffs, response, result, exc>>

\* time.sleep(sleep_time); continue
BackoffSleep ==
    /\ pc = "backoff"
    /\ backoffs' = Append(backoffs, sleep_time(retry_delay, attempt))
    /\ slept' = slept + sleep_time(retry_delay, attempt)
    /\ attempt' = attempt + 1
    /\ pc' = IF in_range(attempt + 1, max_retries) THEN "request" ELSE "return"
    /\ UNCHANGED <<arg, remote, run_no,
                   op, runVars, issued, nFailed, req, max_retries,
                   retry_delay, attempts, wire, response, result, exc>>

----------------------------------------------------------------------------
(* The API operations, called on their own *)

RetryDelays == {DefaultRetryDelay, DefaultRetryDelay \div 4}
SamplePositions == {Position(r, c) : r \in 0..1, c \in 0..1}
SampleObjects ==
    {Polyanet(Position(0, 1)), Soloon(Position(1, 0), lower(<<"R","E","D">>)),
     Cometh(Position(1, 1), lower(<<"U","P">>))}

ApiOps ==
    {"_make_request", "create_polyanet", "delete_polyanet", "create_object"}

\* _make_request(endpoint, method, data, max_retries, retry_delay)
CallMakeRequest ==
    /\ pc = "idle"
    /\ op' = "_make_request"
    /\ \E mr \in 0..MaxRetriesBound, rd \in RetryDelays :
         make_request("/polyanets", "POST", to_dict(Position(0, 0)), mr, rd)
    /\ UNCHANGED <<arg, remote, run_no,
                   runVars, issued, nFailed, slept, wire, result, exc>>

\* phase_one.py: create_polyanet(position)
CallCreatePolyanet ==
    /\ pc = "idle"
    /\ op' = "create_polyanet"
    /\ \E position \in SamplePositions :
         /\ arg' = position
         /\ make_request("/polyanets", "POST", to_dict(position),
                         DefaultMaxRetries, DefaultRetryDelay)
    /\ UNCHANGED <<remote, run_no,
                   runVars, issued, nFailed, slept, wire, result, exc>>

\* phase_one.py: delete_polyanet(position)
CallDeletePolyanet ==
    /\ pc = "idle"
    /\ op' = "delete_polyanet"
    /\ \E position \in SamplePositions :
         /\ arg' = position
         /\ make_request("/polyanets", "DELETE", to_dict(position),
                         DefaultMaxRetries, DefaultRetryDelay)
    /\ UNCHANGED <<remote, run_no,
                   runVars, issued, nFailed, slept, wire, result, exc>>

\* phase_two.py: create_object(obj), up to the call of _make_request
CallCreateObject ==
    /\ pc = "idle"
    /\ op' = "create_object"
    /\ \E obj \in SampleObjects :
         /\ arg' = obj
         /\ make_request(endpoint_map(obj.kind), "POST", to_api_params(obj),
                         DefaultMaxRetries, DefaultRetryDelay)
    /\ UNCHANGED <<remote, run_no,
                   runVars, issued, nFailed, slept, wire, result, exc>>

\* the return of the operation: _make_request's True / False, and
\* create_object's `response is not None`
ApiReturn ==
    /\ pc = "return"
    /\ op \in ApiOps
    /\ result' = IF response # 0 THEN "True" ELSE "False"
    /\ pc' = "done"
    /\ UNCHANGED <<arg, remote, run_no,
                   op, runVars, callVars, issued, nFailed, slept, wire,
                   response, exc>>

\* phase_two.py: get_goal_map().  Its call of _make_request gives no data,
\* a parameter without a default: the call raises TypeError before
\* _make_request runs, and nothing in get_goal_map catches it
CallGetGoalMap ==
    /\ pc = "idle"
    /\ missing_arguments(GetGoalMapKeywords) # {}
    /\ op' = "get_goal_map"
    /\ exc' = "TypeError"
    /\ pc' = "raised"
    /\ UNCHANGED <<arg, remote, run_no,
                   runVars, callVars, issued, nFailed, slept, wire, response,
                   result>>

----------------------------------------------------------------------------
(* phase_one.py: MegaverseCreator.create_x_shape *)

\* the arguments create_polyanet(position) gives _make_request
polyanet_call(position) ==
    [endpoint |-> "/polyanets", method |-> "POST", data |-> to_dict(position)]

\* a bug: the failure branch returns, so a failed item ends the run
x_shape_after_create_stop(created) == IF created THEN "pacing" ELSE "done"

\* where the loop body goes once create_polyanet has returned: both
\* branches of the if only log, then comes the pacing sleep
x_shape_after_create(created) == "pacing"

\* MegaverseCreator(api, grid_size).create_x_shape(), up to the loop
StartXShape ==
    /\ pc = "idle"
    /\ op' = "create_x_shape"
    /\ \E g \in GridSizes :
         /\ grid_size' = g
         /\ positions' = generate_x_shape_positions(g)
    /\ run_no' = 1
    /\ idx' = 1
    /\ pc' = "loop"
    /\ UNCHANGED <<arg, remote,
                   goal_map_from, served,
                   goal_map, objects, issued, nFailed, skipped,
                   pacings, callVars, slept, wire, response, result, exc>>

\* if not self._is_valid_position(position): log; continue
XShapeSkip ==
    /\ pc = "loop"
    /\ op = "create_x_shape"
    /\ idx <= Len(positions)
    /\ ~is_valid_position(positions[idx], grid_size)
    /\ skipped' = skipped + 1
    /\ idx' = idx + 1
    /\ UNCHANGED <<arg, remote, run_no,
                   pc, op, goal_map_from, served,
                   grid_size, positions, goal_map,
                   objects, issued, nFailed, pacings, callVars, slept, wire,
                   response, result, exc>>

\* a bug: a diff against the remote grid, a position that holds a marker
\* already is passed over
XShapeCreate_unless_present ==
    /\ pc = "loop"
    /\ op = "create_x_shape"
    /\ idx <= Len(positions)
    /\ is_valid_position(positions[idx], grid_size)
    /\ IF \E e \in remote.cells :
            e.row = positions[idx].row /\ e.column = positions[idx].column
       THEN /\ idx' = idx + 1
            /\ UNCHANGED <<goal_map_from, served, grid_size, positions,
                           goal_map, objects, skipped, pacings, issued,
                           callVars, response, pc>>
       ELSE /\ issued' = Append(issued, polyanet_call(positions[idx]))
            /\ make_request("/polyanets", "POST", to_dict(positions[idx]),
                            DefaultMaxRetries, DefaultRetryDelay)
            /\ UNCHANGED runVars
    /\ UNCHANGED <<arg, remote, run_no, op, nFailed, slept, wire, result,
                   exc>>

\* self.api.create_polyanet(position), up to the first HTTP attempt
XShapeCreate ==
    /\ pc = "loop"
    /\ op = "create_x_shape"
    /\ idx <= Len(positions)
    /\ is_valid_position(positions[idx], grid_size)
    /\ issued' = Append(issued, polyanet_call(positions[idx]))
    /\ make_request("/polyanets", "POST", to_dict(positions[idx]),
                    DefaultMaxRetries, DefaultRetryDelay)
    /\ UNCHANGED <<arg, remote, run_no,
                   op, runVars, nFailed, slept, wire, result, exc>>

\* create_polyanet has returned: log the success or the failure
XShapeCreated ==
    /\ pc = "return"
    /\ op = "create_x_shape"
    /\ nFailed' = IF response # 0 THEN nFailed ELSE nFailed + 1
    /\ pc' = x_shape_after_create(response # 0)
    /\ UNCHANGED <<arg, remote, run_no,
                   op, runVars, callVars, issued, slept, wire, response,
                   result, exc>>

\* a bug: the sleep is in the success branch, a failed item is not paced
XShapePacing_after_success_only ==
    /\ pc = "pacing"
    /\ op = "create_x_shape"
    /\ pacings' = IF response # 0 THEN pacings + 1 ELSE pacings
    /\ slept' = IF response # 0 THEN slept + PacingDelay ELSE slept
    /\ idx' = idx + 1
    /\ pc' = "loop"
    /\ UNCHANGED <<arg, remote, run_no,
                   op, goal_map_from, served, grid_size, positions, goal_map,
                   objects, issued, nFailed, skipped, callVars, wire,
                   response, result, exc>>

\* time.sleep(0.5), then on to the next position
XShapePacing ==
    /\ pc = "pacing"
    /\ op = "create_x_shape"
    /\ pacings' = pacings + 1
    /\ slept' = slept + PacingDelay
    /\ idx' = idx + 1
    /\ pc' = "loop"
    /\ UNCHANGED <<arg, remote, run_no,
                   op, goal_map_from, served,
                   grid_size, positions, goal_map, objects,
                   issued, nFailed, skipped, callVars, wire, response, result,
                   exc>>

\* the loop is over: create_x_shape returns
XShapeDone ==
    /\ pc = "loop"
    /\ op = "create_x_shape"
    /\ idx > Len(positions)
    /\ pc' = "done"
    /\ UNCHANGED <<arg, remote, run_no,
                   op, runVars, callVars, issued, nFailed, slept, wire,
                   response, result, exc>>

\* create_x_shape() called once more on the same MegaverseCreator
XShapeAgain ==
    /\ pc = "done"
    /\ op = "create_x_shape"
    /\ run_no = 1
    /\ run_no' = 2
    /\ positions' = generate_x_shape_positions(grid_size)
    /\ idx' = 1
    /\ issued' = <<>>
    /\ nFailed' = 0
    /\ skipped' = 0
    /\ pacings' = 0
    /\ pc' = "loop"
    /\ UNCHANGED <<arg, remote, op, goal_map_from, served, grid_size,
                   goal_map, objects, callVars, slept, wire, response,
                   result, exc>>

\* MegaverseCreator(api, grid_size)._is_valid_position(position), called
\* on its own
CallIsValidPosition ==
    /\ pc = "idle"
    /\ op' = "_is_valid_position"
    /\ \E g \in GridSizes, row \in Coordinates, column \in Coordinates :
         /\ grid_size' = g
         /\ arg' = Position(row, column)
         /\ result' = IF is_valid_position(Position(row, column), g)
                      THEN "True" ELSE "False"
    /\ pc' = "done"
    /\ UNCHANGED <<remote, run_no, goal_map_from, served, positions,
                   goal_map, objects, idx, skipped, pacings, callVars,
                   issued, nFailed, slept, wire, response, exc>>

----------------------------------------------------------------------------
(* phase_two.py: MegaverseCreator.create_megaverse *)

\* the arguments create_object(obj) gives _make_request
object_call(obj) ==
    [endpoint |-> endpoint_map(obj.kind), method |-> "POST",
     data |-> to_api_params(obj)]

\* a bug: the guard is lost, the run goes on without a goal map
goal_map_missing_never(gm) == FALSE

\* if not goal_map
goal_map_missing(gm) == gm = <<>>

\* where the loop body goes once create_object has returned
megaverse_after_create(created) == "pacing"

\* create_megaverse() of a creator whose api is the MegaverseAPI of the
\* source: self.api.get_goal_map() raises TypeError (see CallGetGoalMap) and
\* create_megaverse, which catches nothing, ends with it
MegaverseGoalMapRaises ==
    /\ pc = "idle"
    /\ missing_arguments(GetGoalMapKeywords) # {}
    /\ op' = "create_megaverse"
    /\ goal_map_from' = "MegaverseAPI"
    /\ served' \in GoalMapsOver(RunTokens)
    /\ exc' = "TypeError"
    /\ pc' = "raised"
    /\ UNCHANGED <<arg, remote, run_no,
                   grid_size, positions, goal_map, objects, idx, issued,
                   nFailed, skipped, pacings, callVars, slept, wire, response,
                   result>>

\* create_megaverse() of a creator (MegaverseCreator(api) takes any api)
\* whose api.get_goal_map is replaced by one that returns a goal map: the
\* guard, and parse_goal_map when the map is there
MegaverseGoalMap ==
    /\ pc = "idle"
    /\ op' = "create_megaverse"
    /\ goal_map_from' = "replaced"
    /\ \E gm \in GoalMapsOver(RunTokens) :
         /\ served' = gm
         /\ goal_map' = gm
         /\ IF goal_map_missing(gm)
            THEN /\ pc' = "aborted"
                 /\ objects' = <<>>
            ELSE /\ pc' = "loop"
                 /\ objects' = parse_goal_map(gm)
    /\ idx' = 1
    /\ UNCHANGED <<arg, remote, run_no,
                   grid_size, positions, issued, nFailed, skipped, pacings,
                   callVars, slept, wire, response, result, exc>>

\* self.api.create_object(obj), up to the first HTTP attempt
MegaverseCreate ==
    /\ pc = "loop"
    /\ op = "create_megaverse"
    /\ idx <= Len(objects)
    /\ issued' = Append(issued, object_call(objects[idx]))
    /\ make_request(endpoint_map(objects[idx].kind), "POST",
                    to_api_params(objects[idx]),
                    DefaultMaxRetries, DefaultRetryDelay)
    /\ UNCHANGED <<arg, remote, run_no,
                   op, runVars, nFailed, slept, wire, result, exc>>

\* create_object has returned: log the success or the failure
MegaverseCreated ==
    /\ pc = "return"
    /\ op = "create_megaverse"
    /\ nFailed' = IF response # 0 THEN nFailed ELSE nFailed + 1
    /\ pc' = megaverse_after_create(response # 0)
    /\ UNCHANGED <<arg, remote, run_no,
                   op, runVars, callVars, issued, slept, wire, response,
                   result, exc>>

\* a bug: on to the next object without the sleep
MegaversePacing_without_sleep ==
    /\ pc = "pacing"
    /\ op = "create_megaverse"
    /\ idx' = idx + 1
    /\ pc' = "loop"
    /\ UNCHANGED <<arg, remote, run_no, op, goal_map_from, served,
                   grid_size, positions, goal_map, objects, issued, nFailed,
                   skipped, pacings, slept, callVars, wire, response, result,
                   exc>>

\* time.sleep(0.5), then on to the next object
MegaversePacing ==
    /\ pc = "pacing"
    /\ op = "create_megaverse"
    /\ pacings' = pacings + 1
    /\ slept' = slept + PacingDelay
    /\ idx' = idx + 1
    /\ pc' = "loop"
    /\ UNCHANGED <<arg, remote, run_no,
                   op, goal_map_from, served,
                   grid_size, positions, goal_map, objects,
                   issued, nFailed, skipped, callVars, wire, response, result,
                   exc>>

\* the loop is over: create_megaverse returns
MegaverseDone ==
    /\ pc = "loop"
    /\ op = "create_megaverse"
    /\ idx > Len(objects)
    /\ pc' = "done"
    /\ UNCHANGED <<arg, remote, run_no,
                   op, runVars, callVars, issued, nFailed, slept, wire,
                   response, result, exc>>

----------------------------------------------------------------------------
(* The programs *)

Next ==
    \/ CallMakeRequest
    \/ CallCreatePolyanet
    \/ CallDeletePolyanet
    \/ CallCreateObject
    \/ CallGetGoalMap
    \/ RequestSucceeds
    \/ RequestFails
    \/ BackoffSleep
    \/ ApiReturn
    \/ StartXShape
    \/ XShapeSkip
    \/ XShapeCreate
    \/ XShapeCreated
    \/ XShapePacing
    \/ XShapeDone
    \/ XShapeAgain
    \/ CallIsValidPosition
    \/ MegaverseGoalMapRaises
    \/ MegaverseGoalMap
    \/ MegaverseCreate
    \/ MegaverseCreated
    \/ MegaversePacing
    \/ MegaverseDone

Spec == Init /\ [][Next]_vars

----------------------------------------------------------------------------
(* create_x_shape against a remote that carries out every request, its    *)
(* grid followed from the empty grid on                                   *)

InitIdempotent ==
    /\ pc = "idle"
    /\ op = "none"
    /\ goal_map_from = "MegaverseAPI"
    /\ served = <<>>
    /\ grid_size = 0
    /\ positions = <<>>
    /\ goal_map = <<>>
    /\ objects = <<>>
    /\ idx = 1
    /\ issued = <<>>
    /\ nFailed = 0
    /\ skipped = 0
    /\ pacings = 0
    /\ req = NoRequest
    /\ max_retries = DefaultMaxRetries
    /\ retry_delay = DefaultRetryDelay
    /\ attempt = 0
    /\ attempts = 0
    /\ backoffs = <<>>
    /\ slept = 0
    /\ wire = NoRequest
    /\ response = 0
    /\ result = "unset"
    /\ exc = "none"
    /\ arg = NoArg
    /\ remote = EmptyGrid
    /\ run_no = 0

\* an attempt the remote answers with a 2xx status
RequestAccepted == request_succeeds(Accepted)

NextIdempotent ==
    \/ StartXShape
    \/ XShapeSkip
    \/ XShapeCreate
    \/ RequestAccepted
    \/ XShapeCreated
    \/ XShapePacing
    \/ XShapeDone
    \/ XShapeAgain

SpecIdempotent == InitIdempotent /\ [][NextIdempotent]_vars

----------------------------------------------------------------------------
(* parse_goal_map on its own, over every goal map of the bounds *)

InitParse ==
    /\ pc = "idle"
    /\ op = "parse_goal_map"
    /\ goal_map_from = "replaced"
    /\ served = <<>>
    /\ grid_size = 0
    /\ positions = <<>>
    /\ goal_map \in GoalMapsOver(ParseTokens)
    /\ objects = <<>>
    /\ idx = 1
    /\ issued = <<>>
    /\ nFailed = 0
    /\ skipped = 0
    /\ pacings = 0
    /\ req = NoRequest
    /\ max_retries = DefaultMaxRetries
    /\ retry_delay = DefaultRetryDelay
    /\ attempt = 0
    /\ attempts = 0
    /\ backoffs = <<>>
    /\ slept = 0
    /\ wire = NoRequest
    /\ response = 0
    /\ result = "unset"
    /\ exc = "none"
    /\ arg = NoArg
    /\ remote = NotFollowed
    /\ run_no = 0

\* objects = self.parse_goal_map(goal_map)
ParseGoalMap ==
    /\ pc = "idle"
    /\ op = "parse_goal_map"
    /\ objects' = parse_goal_map(goal_map)
    /\ pc' = "done"
    /\ UNCHANGED <<arg, remote, run_no,
                   op, goal_map_from, served,
                   grid_size, positions, goal_map, idx,
                   issued, nFailed, skipped, pacings, callVars, slept, wire,
                   response, result, exc>>

SpecParse == InitParse /\ [][ParseGoalMap]_vars

----------------------------------------------------------------------------
(* The claims *)

RECURSIVE Pow2(_)
Pow2(n) == IF n <= 0 THEN 1 ELSE 2 * Pow2(n - 1)

RECURSIVE SumSeq(_)
SumSeq(q) == IF q = <<>> THEN 0 ELSE Head(q) + SumSeq(Tail(q))

\* the operations that end in a call of _make_request
Mutations == {"create_polyanet", "delete_polyanet", "create_object"}
Runs == {"create_x_shape", "create_megaverse"}
\* _make_request has returned and its caller has not gone on to another call
CallReturned ==
    \/ pc \in {"return", "pacing"}
    \/ (pc = "done" /\ op \in ApiOps)

\* C1: for every max_retries >= 1, a call of _make_request (directly or by
\* create_polyanet, delete_polyanet, create_object, in a run or not) whose
\* attempts all fail has made exactly max_retries HTTP attempts when it
\* returns failure, the operation then returns False, and no call ever makes
\* more than max_retries attempts.
C1_FailureAfterExactlyMaxRetries ==
    /\ attempts <= max_retries
    /\ (pc = "request" => attempts < max_retries)
    /\ (CallReturned /\ max_retries >= 1 /\ response = 0)
         => attempts = max_retries
    /\ (pc = "done" /\ op \in ApiOps /\ response = 0) => result = "False"

\* C1 witness: create_object has returned False after its 3 failed attempts
C1_Witness ==
    /\ pc = "done"
    /\ op = "create_object"
    /\ result = "False"
    /\ attempts = 3
    /\ wire.endpoint = "/soloons"

\* C2: the k-th backoff sleep of a call (k from 0) is retry_delay * 2^k, and
\* there is one after every failed attempt that is followed by another
\* attempt; a call that succeeds on its third attempt has slept
\* retry_delay * 1 + retry_delay * 2 in backoffs (1 s, then 2 s, by default).
C2_BackoffSchedule ==
    /\ \A k \in 1..Len(backoffs) : backoffs[k] = retry_delay * Pow2(k - 1)
    /\ (pc = "request" => Len(backoffs) = attempts)
    /\ (pc = "backoff" => Len(backoffs) = attempts - 1)
    /\ (pc = "return" /\ response # 0 /\ attempts = 3)
         => /\ SumSeq(backoffs) = retry_delay * 1 + retry_delay * 2
            /\ (retry_delay = 1000 => backoffs = <<1000, 2000>>)

\* C2 witness: a call with the default delay succeeds on its third attempt
C2_Witness ==
    /\ pc = "return"
    /\ response = 200
    /\ attempts = 3
    /\ retry_delay = 1000
    /\ backoffs = <<1000, 2000>>

\* C3 (as claimed): no transport operation (create_polyanet,
\* delete_polyanet, create_object, get_goal_map) ever raises to its caller.
\* The code breaks it: get_goal_map raises TypeError on every call.
C3_NoExceptionCrossesTransport ==
    op \in Mutations \cup {"_make_request", "get_goal_map"} => exc = "none"

\* the 14 positions of the X on the 11 x 11 grid, in the order of the claim
X11 ==
    << <<2, 2>>, <<2, 8>>, <<3, 3>>, <<3, 7>>, <<4, 4>>, <<4, 6>>, <<5, 5>>,
       <<5, 5>>, <<6, 6>>, <<6, 4>>, <<7, 7>>, <<7, 3>>, <<8, 8>>, <<8, 2>> >>
\* the create-Marker call at a position
MarkerCall(rc) ==
    [endpoint |-> "/polyanets", method |-> "POST",
     data |-> [row |-> rc[1], column |-> rc[2]]]

\* C4: create_x_shape with grid size 11 issues create-Marker calls at the 14
\* positions of X11, in this order, and nothing else: at any time the calls
\* issued are the first ones of the list, nothing is skipped, and the run
\* ends only when all 14 are issued, whichever calls failed.
C4_XShape11IssuesAll14InOrder ==
    (op = "create_x_shape" /\ grid_size = 11)
      => /\ Len(issued) <= 14
         /\ \A k \in 1..Len(issued) : issued[k] = MarkerCall(X11[k])
         /\ skipped = 0
         /\ nFailed <= Len(issued)
         /\ (pc = "done" => Len(issued) = 14)

\* C4 witness: a run on the 11 x 11 grid ends with all 14 calls issued,
\* 3 of which failed
C4_Witness ==
    /\ op = "create_x_shape"
    /\ grid_size = 11
    /\ pc = "done"
    /\ nFailed = 3
    /\ Len(issued) = 14

\* the cells of a rectangular goal map in row-major order, each with its
\* 0-based row and column
CellsRowMajor(gm) ==
    IF gm = <<>> THEN <<>>
    ELSE LET cols == Len(gm[1])
         IN [k \in 1..(Len(gm) * cols) |->
               [row |-> (k - 1) \div cols, column |-> (k - 1) % cols,
                token |-> gm[((k - 1) \div cols) + 1][((k - 1) % cols) + 1]]]

IsNotSpace(cell) == cell.token # SPACE

\* the create call the claims expect for a cell of one of the three kinds
ExpectedCall(cell) ==
    IF cell.token = POLYANET
    THEN [endpoint |-> "/polyanets", method |-> "POST",
          data |-> [row |-> cell.row, column |-> cell.column]]
    ELSE IF cell.token = RED_SOLOON
    THEN [endpoint |-> "/soloons", method |-> "POST",
          data |-> [row |-> cell.row, column |-> cell.column,
                    color |-> <<"r", "e", "d">>]]
    ELSE [endpoint |-> "/comeths", method |-> "POST",
          data |-> [row |-> cell.row, column |-> cell.column,
                    direction |-> <<"u", "p">>]]

\* one expected call per cell that is not SPACE, in row-major order
ExpectedCalls(gm) ==
    LET cells == SelectSeq(CellsRowMajor(gm), IsNotSpace)
    IN [k \in 1..Len(cells) |-> ExpectedCall(cells[k])]

RunEnded == pc \in {"done", "aborted", "raised"}

\* C5 (as claimed): a run of create_megaverse with a non-empty goal map
\* ends having issued exactly one create call per non-empty cell of the
\* map, in row-major order.  The code breaks it: with the MegaverseAPI of
\* the source the run ends in get_goal_map's TypeError with no call issued.
C5_OneCreatePerCellInMapOrder ==
    (op = "create_megaverse" /\ served # <<>> /\ RunEnded)
      => issued = ExpectedCalls(served)

\* C6: a run of create_megaverse whose goal map is empty or unreachable is
\* aborted (by the guard's return, or by the exception of get_goal_map)
\* before its loop: it never issues a create call, never sends an HTTP
\* request for one and never makes a pacing sleep.
C6_NoMutationWithoutGoalMap ==
    (op = "create_megaverse" /\ served = <<>>)
      => /\ pc \in {"aborted", "raised"}
         /\ issued = <<>>
         /\ wire = NoRequest
         /\ attempts = 0
         /\ pacings = 0
         /\ slept = 0

\* C6 witness: get_goal_map has returned [] and the guard has ended the run
C6_Witness ==
    /\ op = "create_megaverse"
    /\ goal_map_from = "replaced"
    /\ served = <<>>
    /\ goal_map = <<>>
    /\ pc = "aborted"
    /\ issued = <<>>

\* C7: in create_x_shape and in create_megaverse every call issued, failed
\* or not, is followed by one pacing sleep of 0.5 s before the next call is
\* issued: while a call is in flight every earlier call has had its sleep,
\* between two calls and at the end of the run there are as many pacing
\* sleeps as calls, and the next call is issued 0.5 s after the last HTTP
\* request of the call before it.
C7_OnePacingSleepPerCall ==
    op \in Runs
      => /\ (pc \in {"request", "backoff", "return", "pacing"}
               => /\ issued # <<>>
                  /\ pacings = Len(issued) - 1)
         /\ (pc \in {"loop", "done", "aborted", "raised"}
               => pacings = Len(issued))
         /\ (pc \in {"loop", "done"} /\ issued # <<>> => slept = 500)

\* C7 witness: a run of create_x_shape has ended after 14 calls, some of
\* them failed, and 14 pacing sleeps
C7_Witness ==
    /\ op = "create_x_shape"
    /\ pc = "done"
    /\ nFailed = 2
    /\ Len(issued) = 14
    /\ pacings = 14

\* whether every coordinate of every position lies in 0..g-1
AllInGrid(ps, g) ==
    \A k \in 1..Len(ps) :
      /\ 0 <= ps[k].row /\ ps[k].row < g
      /\ 0 <= ps[k].column /\ ps[k].column < g

\* the positions are (i, i) and (i, g-1-i) for i = first..last, in order
IsXOver(ps, g, first, last) ==
    /\ Len(ps) = 2 * (last - first + 1)
    /\ \A i \in first..last :
         /\ ps[2 * (i - first) + 1] = [row |-> i, column |-> i]
         /\ ps[2 * (i - first) + 2] = [row |-> i, column |-> g - 1 - i]
         /\ (ps[2 * (i - first) + 1] = ps[2 * (i - first) + 2]
               <=> i = g - 1 - i)

\* C8 (as claimed): for every grid size g >= 6 the generated positions are
\* the 2 * (g - 4) positions (i, i), (i, g-1-i) for i = 2..g-3, all of them
\* inside the grid.  The code does not scale with g: it is refuted at g = 6.
C8_ShapeScalesWithGridSize ==
    (op = "create_x_shape" /\ grid_size >= 6)
      => /\ Len(positions) = 2 * (grid_size - 4)
         /\ IsXOver(positions, grid_size, 2, grid_size - 3)
         /\ AllInGrid(positions, grid_size)

\* C8 (amended): for every grid size g the generated positions are the 14
\* positions (i, i), (i, g-1-i) for i = 2..8, in this order, the two of an
\* index being equal iff i = g-1-i; they are all inside the grid iff g >= 9;
\* the count is 2 * (g - 4), with indices 2..g-3, only for g = 11.
C8_ShapeIsTheFixedRange ==
    op = "create_x_shape"
      => /\ Len(positions) = 14
         /\ IsXOver(positions, grid_size, 2, 8)
         /\ (AllInGrid(positions, grid_size) <=> grid_size >= 9)
         /\ (Len(positions) = 2 * (grid_size - 4) <=> grid_size = 11)

\* C8 witness: the generator has run for grid size 6 and has given 14
\* positions, (6, -1) among them
C8_Witness ==
    /\ op = "create_x_shape"
    /\ grid_size = 6
    /\ Len(positions) = 14
    /\ positions[10] = [row |-> 6, column |-> -1]

\* the objects that were parsed for a position
ObjectsAt(position) ==
    {objects[k] :
       k \in {j \in 1..Len(objects) : objects[j].position = position}}
CountAt(position) ==
    Cardinality({j \in 1..Len(objects) : objects[j].position = position})

\* whether position p comes before position q in row-major order
RowMajorBefore(p, q) ==
    \/ p.row < q.row
    \/ (p.row = q.row /\ p.column < q.column)

\* the entity C9 gives for a token it speaks of, as a sequence of 0 or 1
C9Tokens ==
    {POLYANET, RED_SOLOON, WHITE_SOLOON, UP_COMETH, LEFT_COMETH, SPACE}
C9Entity(token, position) ==
    CASE token = POLYANET -> {[kind |-> "Polyanet", position |-> position]}
      [] token = RED_SOLOON ->
           {[kind |-> "Soloon", position |-> position,
             color |-> <<"r", "e", "d">>]}
      [] token = WHITE_SOLOON ->
           {[kind |-> "Soloon", position |-> position,
             color |-> <<"w", "h", "i", "t", "e">>]}
      [] token = UP_COMETH ->
           {[kind |-> "Cometh", position |-> position,
             direction |-> <<"u", "p">>]}
      [] token = LEFT_COMETH ->
           {[kind |-> "Cometh", position |-> position,
             direction |-> <<"l", "e", "f", "t">>]}
      [] token = SPACE -> {}

ExampleRow == <<POLYANET, RED_SOLOON, UP_COMETH, SPACE>>

\* C9: parse_goal_map gives, for the cell at row r and column c, a Polyanet
\* at (r, c) for POLYANET, a Soloon at (r, c) with the color in lower case
\* for <COLOR>_SOLOON, a Cometh at (r, c) with the direction in lower case
\* for <DIRECTION>_COMETH and nothing for SPACE, at most one object per
\* cell, the objects being in row-major order; the example row gives three
\* objects, at columns 0, 1 and 2.
C9_ParseGoalMapByToken ==
    (op = "parse_goal_map" /\ pc = "done")
      => /\ \A k \in 1..(Len(CellsRowMajor(goal_map))) :
              LET cell == CellsRowMajor(goal_map)[k]
                  position == [row |-> cell.row, column |-> cell.column]
              IN /\ CountAt(position) <= 1
                 /\ (cell.token \in C9Tokens
                       => /\ ObjectsAt(position)
                               = C9Entity(cell.token, position)
                          /\ CountAt(position)
                               = Cardinality(C9Entity(cell.token, position)))
         /\ \A k \in 1..(Len(objects) - 1) :
              RowMajorBefore(objects[k].position, objects[k + 1].position)
         /\ (goal_map = <<ExampleRow>>
               => objects =
                    << [kind |-> "Polyanet",
                        position |-> [row |-> 0, column |-> 0]],
                       [kind |-> "Soloon",
                        position |-> [row |-> 0, column |-> 1],
                        color |-> <<"r", "e", "d">>],
                       [kind |-> "Cometh",
                        position |-> [row |-> 0, column |-> 2],
                        direction |-> <<"u", "p">>] >>)

\* C9 witness: the example row has been parsed into its three objects
C9_Witness ==
    /\ op = "parse_goal_map"
    /\ pc = "done"
    /\ goal_map = <<ExampleRow>>
    /\ Len(objects) = 3
    /\ objects[3].position = [row |-> 0, column |-> 2]

\* the enumerated colors and directions, and the tokens of the grammar
ColorWords ==
    {<<"R","E","D">>, <<"B","L","U","E">>, <<"W","H","I","T","E">>,
     <<"P","U","R","P","L","E">>}
DirectionWords ==
    {<<"U","P">>, <<"D","O","W","N">>, <<"L","E","F","T">>,
     <<"R","I","G","H","T">>}
Colors ==
    {<<"r","e","d">>, <<"b","l","u","e">>, <<"w","h","i","t","e">>,
     <<"p","u","r","p","l","e">>}
Directions ==
    {<<"u","p">>, <<"d","o","w","n">>, <<"l","e","f","t">>,
     <<"r","i","g","h","t">>}
InGrammar(token) ==
    \/ token = POLYANET
    \/ \E w \in ColorWords : token = w \o <<"_">> \o SOLOON
    \/ \E w \in DirectionWords : token = w \o <<"_">> \o COMETH

\* C10 (as claimed): parse_goal_map gives no object for a cell whose token
\* is outside the grammar (not POLYANET, not <COLOR>_SOLOON with an
\* enumerated color, not <DIRECTION>_COMETH with an enumerated direction),
\* so every Soloon it gives has an enumerated color and every Cometh an
\* enumerated direction.  The code breaks it: GREEN_SOLOON gives a Soloon
\* of color green.
C10_UnknownTokensGiveNothing ==
    (op = "parse_goal_map" /\ pc = "done")
      => /\ \A k \in 1..(Len(CellsRowMajor(goal_map))) :
              LET cell == CellsRowMajor(goal_map)[k]
              IN ~InGrammar(cell.token)
                   => CountAt([row |-> cell.row, column |-> cell.column]) = 0
         /\ \A k \in 1..Len(objects) :
              /\ (objects[k].kind = "Soloon" => objects[k].color \in Colors)
              /\ (objects[k].kind = "Cometh"
                    => objects[k].direction \in Directions)

\* C11 (as claimed): get_goal_map makes one read through _make_request, of
\* at most max_retries GET attempts, and when no attempt of the read has
\* succeeded it returns the empty map to its caller.  The code breaks it:
\* the read is never made, get_goal_map ends in the TypeError of its call
\* of _make_request and returns nothing.
C11_FailedReadReturnsEmptyMap ==
    (op = "get_goal_map" /\ RunEnded /\ response = 0)
      => /\ attempts <= max_retries
         /\ pc = "done"
         /\ result = "[]"

\* the entity the operation under way is sending a request for
CurrentEntity ==
    CASE op = "create_x_shape" -> Polyanet(positions[idx])
      [] op = "create_megaverse" -> objects[idx]
      [] op \in {"create_polyanet", "delete_polyanet"} -> Polyanet(arg)
      [] op = "create_object" -> arg
\* the request of the claim for an entity: method and path of its kind, a
\* body of row, column, the attribute of the kind and the caller identifier
MutationRequest(method, e) ==
    CASE e.kind = "Polyanet" ->
           [endpoint |-> "/polyanets", method |-> method,
            data |-> [row |-> e.position.row, column |-> e.position.column,
                      candidateId |-> "candidate-1"]]
      [] e.kind = "Soloon" ->
           [endpoint |-> "/soloons", method |-> method,
            data |-> [row |-> e.position.row, column |-> e.position.column,
                      color |-> e.color, candidateId |-> "candidate-1"]]
      [] e.kind = "Cometh" ->
           [endpoint |-> "/comeths", method |-> method,
            data |-> [row |-> e.position.row, column |-> e.position.column,
                      direction |-> e.direction,
                      candidateId |-> "candidate-1"]]
\* an HTTP request of the call under way has been sent
AttemptSent ==
    /\ attempts >= 1
    /\ \/ pc \in {"request", "backoff", "return", "pacing"}
       \/ (pc = "done" /\ op \in Mutations)

\* C12: every HTTP request sent for a mutation (by create_polyanet,
\* delete_polyanet, create_object or a run), first attempt or retry, is the
\* request of its entity: POST to the path of the entity's kind (DELETE
\* /polyanets for delete_polyanet) with a body of exactly row, column, the
\* attribute of the kind and candidateId = the configured identifier; the
\* request of a retry is the request of the attempt before it.
C12_RequestOfItsEntity ==
    (op \in Mutations \cup Runs /\ AttemptSent)
      => /\ wire = MutationRequest(IF op = "delete_polyanet"
                                   THEN "DELETE" ELSE "POST", CurrentEntity)
         /\ wire = req
         /\ wire.data.candidateId = candidate_id

\* C12 witness: create_megaverse is about to retry the request of a red
\* Soloon a second time
C12_Witness ==
    /\ op = "create_megaverse"
    /\ pc = "request"
    /\ attempts = 2
    /\ wire.method = "POST"
    /\ wire.endpoint = "/soloons"
    /\ DOMAIN wire.data = {"row", "column", "color", "candidateId"}
    /\ wire.data.color = <<"r", "e", "d">>

\* C13: _is_valid_position returns True for every position with
\* 0 <= row < grid_size and 0 <= column < grid_size, and False for every
\* position one of whose coordinates is negative or is grid_size or more.
C13_IsValidPosition ==
    (op = "_is_valid_position" /\ pc = "done")
      => /\ (arg.row \in 0..(grid_size - 1)
               /\ arg.column \in 0..(grid_size - 1))
              => result = "True"
         /\ (arg.row < 0 \/ arg.column < 0
               \/ arg.row >= grid_size \/ arg.column >= grid_size)
              => result = "False"

\* C13 witness: on the grid of size 6 the position (5, 6), whose column is
\* the grid size, has been found invalid
C13_Witness ==
    /\ op = "_is_valid_position"
    /\ pc = "done"
    /\ grid_size = 6
    /\ arg = [row |-> 5, column |-> 6]
    /\ result = "False"

\* the generated positions create_x_shape has taken up so far
TakenUp ==
    SubSeq(positions, 1, IF pc \in {"loop", "done"} THEN idx - 1 ELSE idx)
\* those of a sequence of positions that lie on the grid of size g
OnGrid(ps, g) ==
    LET inside(p) == p.row \in 0..(g - 1) /\ p.column \in 0..(g - 1)
    IN SelectSeq(ps, inside)

\* C14: at every grid size, create_x_shape has issued exactly one
\* create-Marker call for each generated position taken up so far whose
\* coordinates are in 0..grid_size-1, in generation order, and has skipped
\* the others: a skipped position has no call, no HTTP request and no pacing
\* sleep, and the run ends once every generated position is taken up.
C14_OnlyValidPositionsAreCreated ==
    op = "create_x_shape"
      => LET valid == OnGrid(TakenUp, grid_size)
         IN /\ issued = [k \in 1..Len(valid) |->
                           MarkerCall(<<valid[k].row, valid[k].column>>)]
            /\ skipped = Len(TakenUp) - Len(valid)
            /\ pacings <= Len(issued)
            /\ (pc \in {"loop", "done"} => pacings = Len(issued))
            /\ (wire # NoRequest
                  => /\ wire.data.row \in 0..(grid_size - 1)
                     /\ wire.data.column \in 0..(grid_size - 1))
            /\ (pc = "done" => Len(TakenUp) = Len(positions))

\* C14 witness: the run on the grid of size 6 has ended with 8 calls issued
\* and the 6 positions of the rows 6, 7, 8 skipped
C14_Witness ==
    /\ op = "create_x_shape"
    /\ grid_size = 6
    /\ pc = "done"
    /\ Len(issued) = 8
    /\ skipped = 6
    /\ pacings = 8

\* the scheduling of a program that runs on: a step that can be taken is
\* taken (a request is answered or times out, a sleep ends)
FairSpec == Spec /\ WF_vars(Next)

\* every operation and every run comes to its end, however the remote
\* answers (a second create_x_shape may follow the first)
Termination == <>[](pc \in {"done", "aborted", "raised"})

\* C15 (as claimed): a run of create_x_shape or create_megaverse that has
\* ended has made at most max_retries attempts for an item and has visited
\* every target item (every generated position, every non-empty cell of
\* the goal map the remote holds), unless it is a run of create_megaverse
\* whose goal map is empty or unreachable.  The code breaks it: with the
\* MegaverseAPI of the source a run of create_megaverse ends in
\* get_goal_map's TypeError with no item visited, whatever the remote
\* holds.
C15_EndedRunVisitedEveryItem ==
    (op \in Runs /\ RunEnded)
      => /\ attempts <= max_retries
         /\ \/ (op = "create_megaverse" /\ served = <<>>)
            \/ /\ op = "create_megaverse"
               /\ pc = "done"
               /\ Len(issued) = Len(ExpectedCalls(served))
            \/ /\ op = "create_x_shape"
               /\ pc = "done"
               /\ idx = Len(positions) + 1
               /\ Len(issued) + skipped = Len(positions)

\* the cells of the remote grid that hold a marker once every position of
\* a sequence that lies on the grid of size g has been created
MarkerCells(ps, g) ==
    {[row |-> OnGrid(ps, g)[k].row, column |-> OnGrid(ps, g)[k].column,
      endpoint |-> "/polyanets"] : k \in 1..Len(OnGrid(ps, g))}

\* C16: create_x_shape does not look at the remote grid: against a remote
\* whose create is idempotent per position and which carries out every
\* request, the calls of a run are those of the generated positions on the
\* grid, in the first run and in the second alike; the first run leaves
\* markers at exactly these positions, the second run leaves the grid as it
\* was at every step.  At grid size 11: 13 distinct cells, and 14 calls, the
\* same ones, in each run.
C16_SecondRunReissuesAndChangesNothing ==
    op = "create_x_shape"
      => LET valid == OnGrid(TakenUp, grid_size)
             target == MarkerCells(positions, grid_size)
         IN /\ issued = [k \in 1..Len(valid) |->
                           MarkerCall(<<valid[k].row, valid[k].column>>)]
            /\ remote.cells \subseteq target
            /\ (run_no = 1 /\ pc = "done" => remote.cells = target)
            /\ (run_no = 2 => remote.cells = target)
            /\ (pc = "done" => Len(issued) = Len(OnGrid(positions, grid_size)))
            /\ (grid_size = 11
                  => /\ Cardinality(target) = 13
                     /\ \A k \in 1..Len(issued) :
                           issued[k] = MarkerCall(X11[k])
                     /\ (pc = "done" => Len(issued) = 14))

\* C16 witness: the second run on the 11 x 11 grid has ended, 14 calls
\* issued again, the 13 markers of the first run in place
C16_Witness ==
    /\ op = "create_x_shape"
    /\ grid_size = 11
    /\ run_no = 2
    /\ pc = "done"
    /\ Len(issued) = 14
    /\ remote.followed
    /\ Cardinality(remote.cells) = 13

\* the failed attempts of the call under way
FailedAttempts == IF response # 0 THEN attempts - 1 ELSE attempts

\* C17: a call of _make_request makes its attempts one after the other
\* until one succeeds or max_retries have failed: once an attempt has
\* succeeded there is no further attempt and no further backoff sleep, the
\* call returns success iff an attempt succeeded, and it returns failure
\* only after max_retries failed attempts; when it returns after f failed
\* attempts it has made min(f, max_retries - 1) backoff sleeps (none after
\* the last allowed attempt); with max_retries = 0 it makes no attempt, no
\* sleep, and returns failure.
C17_StopsAtFirstSuccess ==
    /\ attempts <= max_retries
    /\ (response # 0 => pc \notin {"request", "backoff"})
    /\ (CallReturned /\ max_retries >= 1)
         => /\ Len(backoffs) = Min({FailedAttempts, max_retries - 1})
            /\ (response = 0 => FailedAttempts = max_retries)
            /\ (response # 0 => Len(backoffs) = attempts - 1)
    /\ (CallReturned /\ max_retries = 0)
         => /\ attempts = 0
            /\ backoffs = <<>>
            /\ response = 0
    /\ (pc = "done" /\ op \in ApiOps)
         => (result = "True" <=> response # 0)

\* C17 witness: a call with max_retries = 4 has returned failure after 4
\* failed attempts and 3 backoff sleeps
C17_Witness ==
    /\ op = "_make_request"
    /\ pc = "done"
    /\ max_retries = 4
    /\ attempts = 4
    /\ Len(backoffs) = 3
    /\ result = "False"

\* C18: in a run (default settings: pacing 0.5 s, retry base 1 s), whenever
\* an HTTP request is about to be sent after an earlier one, the sleeps
\* since that earlier request add up to at least 0.5 s: before a retry, the
\* backoff sleep of at least 1 s (1 s, then 2 s); before the first attempt
\* of a call, the pacing sleep of 0.5 s after the last attempt of the call
\* before it.
C18_HalfASecondBetweenRequests ==
    (op \in Runs /\ pc = "request" /\ wire # NoRequest)
      => /\ slept >= 500
         /\ (attempts >= 1
               => /\ slept >= 1000
                  /\ slept = 1000 * Pow2(attempts - 1))
         /\ (attempts = 0 => slept = 500)

\* C18 witness: create_megaverse is about to send the first request of its
\* third call, 0.5 s after the last request of the second, which failed
\* three times
C18_Witness ==
    /\ op = "create_megaverse"
    /\ pc = "request"
    /\ attempts = 0
    /\ Len(issued) = 3
    /\ nFailed = 2
    /\ wire # NoRequest
    /\ slept = 500

====
